---- MODULE Spec2Model ----
(***************************************************************************)
(* Model of the DexScreener boost bot: the scanner's seen-boost cache      *)
(* (scanner.py), the amount filter, the per-boost pipeline and the main    *)
(* loop with its startup and shutdown notifications (bot.py).              *)
(***************************************************************************)
EXTENDS Integers, Sequences, FiniteSets, TLC

(***************************************************************************)
(* Bounds of the model.  MAX_CACHED_BOOSTS and CACHE_CLEANUP_INTERVAL are  *)
(* the configuration values of config.py (500 and 10), scaled down so that *)
(* a few scan cycles overflow the cache and reach a cleanup.               *)
(***************************************************************************)
MAX_CACHED_BOOSTS == 2

CACHE_CLEANUP_INTERVAL == 2

MaxScans == 3

MaxPayloadLen == 2

MaxSizeArg == 3

MaxPairs == 2

MaxPriceInt == 3

MaxAgeDays == 1

(***************************************************************************)
(* Configuration (config.py).                                              *)
(***************************************************************************)
BOOST_AMOUNTS == {500, 100}

TARGET_CHAIN == "solana"

(***************************************************************************)
(* JSON values of the upstream feed.  JNull stands for a chainId that is   *)
(* not a string (JSON null): calling .lower() on it raises.                *)
(***************************************************************************)
JNull == "<null>"

Boost(c, t, a, ta) == [chainId |-> c, tokenAddress |-> t, amount |-> a, totalAmount |-> ta]

FeedRecords ==
    { Boost("solana", "A", 500, 500),
      Boost("SOLANA", "A", 500, 500),
      Boost("solana", "B", 100, 100),
      Boost("solana", "C", 42, 42),
      Boost("solana", "D", 500, 600),
      Boost("ethereum", "E", 500, 500),
      Boost(JNull, "F", 100, 100) }

SeqsUpTo(S, n) == UNION { [1..k -> S] : k \in 0..n }

Payloads == SeqsUpTo(FeedRecords, MaxPayloadLen)

\* The answers of the boosts endpoint that make get_boosted_tokens raise
\* inside its try block: a transport error ("fail": session.get raises), a
\* non-2xx status (raise_for_status raises), an unparsable body
\* (response.json raises) and an object whose `boosts` field is not a list
\* (JSON null: iterating it raises).
RaisingKinds == {"fail", "status", "parse", "dict_nonlist"}

\* The HTTP answer of the boosts endpoint: one of the raising kinds, a bare
\* list, an object with a `boosts` list, or any other shape.
Responses ==
    { [kind |-> k, boosts |-> <<>>] : k \in RaisingKinds \cup {"other"} }
    \cup { [kind |-> k, boosts |-> p] : k \in {"list", "dict"}, p \in Payloads }

\* str.lower() on the chain identifiers of the feed.
Lower(s) ==
    CASE s = "SOLANA" -> "solana"
      [] s = "Solana" -> "solana"
      [] OTHER -> s

\* f"{token_address}_{amount}_{total_amount}"
boost_id(boost) ==
    boost.tokenAddress \o "_" \o ToString(boost.amount) \o "_" \o ToString(boost.totalAmount)

\* `if chain_id != TARGET_CHAIN: continue`
is_other_chain_unfiltered(boost) == FALSE

is_other_chain(boost) == Lower(boost.chainId) # TARGET_CHAIN

\* `if boost_id in self.seen_boost_ids: continue`
is_seen_never(id, seen) == FALSE

is_seen(id, seen) == id \in seen

\* The for loop of get_boosted_tokens from record i on.  An exception raised by
\* a record (chainId.lower() on a non-string) leaves the loop through the
\* `except Exception` clause, which returns [] and keeps the cache as mutated
\* so far.
\* `skipped` collects the records the chain test passed over.
RECURSIVE scan_boosts(_, _, _, _, _)
scan_boosts(boosts, i, filtered, seen, skipped) ==
    IF i > Len(boosts)
    THEN [ret |-> filtered, seen |-> seen, raised |-> FALSE, skipped |-> skipped]
    ELSE LET boost == boosts[i] IN
         IF boost.chainId = JNull
         THEN [ret |-> <<>>, seen |-> seen, raised |-> TRUE, skipped |-> skipped]
         ELSE IF is_other_chain(boost)
         THEN scan_boosts(boosts, i + 1, filtered, seen, skipped \cup {boost})
         ELSE IF is_seen(boost_id(boost), seen)
         THEN scan_boosts(boosts, i + 1, filtered, seen, skipped)
         ELSE scan_boosts(boosts, i + 1, Append(filtered, boost),
                          seen \cup {boost_id(boost)}, skipped)

\* get_boosted_tokens: the only statement that writes the cache is
\* `self.seen_boost_ids.add(boost_id)` in the loop; the except clause leaves
\* the cache as it is.
get_boosted_tokens_reset_on_error(resp, seen) ==
    IF resp.kind \in {"list", "dict"}
    THEN scan_boosts(resp.boosts, 1, <<>>, seen, {})
    ELSE [ret |-> <<>>, seen |-> {}, raised |-> resp.kind \in RaisingKinds,
          skipped |-> {}]

get_boosted_tokens(resp, seen) ==
    IF resp.kind \in {"list", "dict"}
    THEN scan_boosts(resp.boosts, 1, <<>>, seen, {})
    ELSE [ret |-> <<>>, seen |-> seen, raised |-> resp.kind \in RaisingKinds,
          skipped |-> {}]

\* `except Exception as e: ... return []` around the whole body of
\* get_boosted_tokens: no exception raised in it reaches the caller.
fetch_propagates_errors(r) == r.raised

fetch_propagates(r) == FALSE

\* list[start:] of Python for any integer start.
PySliceFrom(list, start) ==
    LET n == Len(list)
        s == IF start < 0 THEN (IF start + n < 0 THEN 0 ELSE start + n)
             ELSE (IF start > n THEN n ELSE start)
    IN  SubSeq(list, s + 1, n)

Range(f) == { f[i] : i \in DOMAIN f }

\* list(a_set): the iteration order of a set is not defined; every order is a
\* possible one.
RECURSIVE ListOrders(_)
ListOrders(S) ==
    IF S = {} THEN { <<>> }
    ELSE UNION { { <<x>> \o l : l \in ListOrders(S \ {x}) } : x \in S }

\* cleanup_cache with the set's iteration order given as ids_list.
cleanup_cache(seen, ids_list, max_size) ==
    IF Cardinality(seen) > max_size
    THEN Range(PySliceFrom(ids_list, -max_size))
    ELSE seen

AllIds == { boost_id(b) : b \in FeedRecords }

AllAmounts == { b.amount : b \in FeedRecords }

\* Python's None where a string or a record is expected.
None == "<None>"

(***************************************************************************)
(* get_token_details (scanner.py).  A pair of an answer carries its chain, *)
(* its address and its `liquidity` field: absent, an object with a numeric *)
(* `usd`, or JSON null (`.get` on it raises).                              *)
(***************************************************************************)
Pair(c, a, shape, usd) == [chainId |-> c, pairAddress |-> a, liquidity |-> shape, usd |-> usd]

PairRecords ==
    { Pair("solana", "p1", "usd", 1),
      Pair("solana", "p2", "usd", 2),
      Pair("SOLANA", "p3", "usd", 2),
      Pair("solana", "p4", "absent", 0),
      Pair("ethereum", "p5", "usd", 3),
      Pair("solana", "p6", "null", 0) }

PairLists == SeqsUpTo(PairRecords, MaxPairs)

\* What one endpoint answers: the request or the parsing of its body raises
\* ("raise"), a status other than 200 ("status"), a 200 body without a
\* `pairs` field ("nopairs"), or a 200 body with a list of pairs ("ok").
LookupAnswers ==
    { [kind |-> k, pairs |-> <<>>] : k \in {"raise", "status", "nopairs"} }
    \cup { [kind |-> "ok", pairs |-> ps] : ps \in PairLists }

\* `pair.get('chainId', '').lower() == TARGET_CHAIN`
is_target_pair(pair) == Lower(pair.chainId) = TARGET_CHAIN

\* The sort key float(x.get('liquidity', {}).get('usd', 0)) where it is
\* defined.
liquidity_usd(pair) == IF pair.liquidity = "usd" THEN pair.usd ELSE 0

\* The sort key raises for this pair.
key_raises(pair) == pair.liquidity = "null"

\* x put into a list sorted by descending key, behind the elements whose key
\* is not smaller (list.sort is stable, also with reverse=True).
RECURSIVE insert_desc(_, _)
insert_desc(x, sorted) ==
    IF sorted = <<>> THEN <<x>>
    ELSE IF liquidity_usd(Head(sorted)) >= liquidity_usd(x)
         THEN <<Head(sorted)>> \o insert_desc(x, Tail(sorted))
         ELSE <<x>> \o sorted

RECURSIVE sort_desc(_, _)
sort_desc(ps, sorted) ==
    IF ps = <<>> THEN sorted
    ELSE sort_desc(Tail(ps), insert_desc(Head(ps), sorted))

\* solana_pairs.sort(key=..., reverse=True)
sort_by_liquidity_unsorted(ps) == ps

sort_by_liquidity(ps) == sort_desc(ps, <<>>)

NoPair == Pair("", "", "absent", 0)

\* The block run for one endpoint: the request, the status test, the `pairs`
\* test, the chain filter, the sort and `return solana_pairs[0]`.  `found`
\* says that the block returned a pair, `raised` that it raised.
select_pair(answer) ==
    IF answer.kind = "raise"
    THEN [found |-> FALSE, pair |-> NoPair, raised |-> TRUE]
    ELSE IF answer.kind # "ok" \/ Len(answer.pairs) = 0
    THEN [found |-> FALSE, pair |-> NoPair, raised |-> FALSE]
    ELSE LET solana_pairs == SelectSeq(answer.pairs, is_target_pair) IN
         IF solana_pairs = <<>>
         THEN [found |-> FALSE, pair |-> NoPair, raised |-> FALSE]
         ELSE IF \E k \in DOMAIN solana_pairs : key_raises(solana_pairs[k])
         THEN [found |-> FALSE, pair |-> NoPair, raised |-> TRUE]
         ELSE [found |-> TRUE, pair |-> sort_by_liquidity(solana_pairs)[1],
               raised |-> FALSE]

\* get_token_details with the answers the two endpoints would give.  The
\* search endpoint is asked first; the token endpoint only when the search
\* block fell through.  An exception raised anywhere ends in the
\* `except Exception` clause, which returns None.
get_token_details(search, token) ==
    LET s == select_pair(search)
        t == select_pair(token)
    IN  IF s.raised
        THEN [found |-> FALSE, pair |-> NoPair, token_queried |-> FALSE, propagated |-> FALSE]
        ELSE IF s.found
        THEN [found |-> TRUE, pair |-> s.pair, token_queried |-> FALSE, propagated |-> FALSE]
        ELSE [found |-> t.found, pair |-> t.pair, token_queried |-> TRUE, propagated |-> FALSE]

\* What get_token_details can hand back: None (no pair on either endpoint, or
\* a caught transport/parse exception), a well-formed pair, or a pair whose
\* numeric fields do not convert (float() raises inside the formatter).
TokenLookupResults == {None, "pair", "malformed_pair"}

\* `f"{amount} (Total: {total_amount})" if total_amount > amount else f"{amount}"`
boost_display(boost) ==
    IF boost.totalAmount > boost.amount
    THEN ToString(boost.amount) \o " (Total: " \o ToString(boost.totalAmount) \o ")"
    ELSE ToString(boost.amount)

\* format_boost_message: the alert text, or None when formatting raised.
\* Without token data the placeholders set before `if token_data:` stay:
\* name and symbol "N/A", age "N/A", price 0 (format_price gives "$0.00").
format_boost_message_needs_pair(boost, td) ==
    IF td \in {None, "malformed_pair"} THEN None
    ELSE "Boost " \o boost_display(boost) \o " Token name ($symbol) CA "
         \o boost.tokenAddress \o " Age age Price price"

format_boost_message(boost, td) ==
    IF td = "malformed_pair" THEN None
    ELSE "Boost " \o boost_display(boost)
         \o (IF td = None THEN " Token N/A ($N/A) CA " ELSE " Token name ($symbol) CA ")
         \o boost.tokenAddress
         \o (IF td = None THEN " Age N/A Price $0.00" ELSE " Age age Price price")

(***************************************************************************)
(* format_price (formatter.py).  A price is a decimal number with nine     *)
(* fractional digits: ip + fp / 10^9.  Python formats the binary float     *)
(* nearest to the decimal; the sample prices are chosen so that no cut     *)
(* falls exactly on a half, where the binary approximation would decide.   *)
(***************************************************************************)
Price(ip, fp) == [ip |-> ip, fp |-> fp]

PriceIntParts == (0..MaxPriceInt) \cup {12, 1234}

PriceNanoParts ==
    { 0, 1, 12, 123, 1234, 12340, 999999, 1000000, 123456789, 340000000,
      500000000, 567890000, 999960000, 999999600 }

PriceSamples == { Price(i, f) : i \in PriceIntParts, f \in PriceNanoParts }

\* The rounding of the format specification `.Nf`: to the nearest, a half to
\* the even digit.  r is what is cut off, of `unit`; q what is kept.
rounds_up_never(r, unit, q) == FALSE

rounds_up(r, unit, q) == 2 * r > unit \/ (2 * r = unit /\ q % 2 = 1)

\* f"{price_usd:.{d}f}": the integer part and the d fractional digits (as a
\* number q below 10^d).
fixed_point(price, d) ==
    LET unit == 10 ^ (9 - d)
        q    == price.fp \div unit
        r    == price.fp % unit
        q1   == IF rounds_up(r, unit, q) THEN q + 1 ELSE q
    IN  IF q1 = 10 ^ d
        THEN [ip |-> price.ip + 1, q |-> 0, d |-> d]
        ELSE [ip |-> price.ip, q |-> q1, d |-> d]

\* The d digits of q, with leading zeros.
RECURSIVE Digits(_, _)
Digits(q, d) == IF d = 0 THEN "" ELSE Digits(q \div 10, d - 1) \o ToString(q % 10)

\* .rstrip("0").rstrip(".") on "<ip>.<d digits of q>": the zeros at the end of
\* the fraction go (the point stops rstrip("0")), then a point left at the end.
RECURSIVE rstrip_zeros(_)
rstrip_zeros(x) ==
    IF x.d > 0 /\ x.q % 10 = 0
    THEN rstrip_zeros([ip |-> x.ip, q |-> x.q \div 10, d |-> x.d - 1])
    ELSE IF x.d = 0 THEN ToString(x.ip)
    ELSE ToString(x.ip) \o "." \o Digits(x.q, x.d)

\* format_price.  Below 0.000001 the subscript form is never produced: `exp`
\* is computed as a negative number (or 0), so `exp > 6` is false and the
\* trimmed 8-decimal string is returned.
format_price(price) ==
    IF price.ip = 0 /\ price.fp = 0 THEN "$0.00"
    ELSE IF price.ip = 0 /\ price.fp < 10 ^ 6
    THEN "$" \o rstrip_zeros(fixed_point(price, 8))
    ELSE IF price.ip = 0
    THEN "$" \o rstrip_zeros(fixed_point(price, 6))
    ELSE "$" \o rstrip_zeros(fixed_point(price, 4))

(***************************************************************************)
(* format_age (formatter.py).  The argument is pair_created_at: None, 0, a *)
(* value datetime.fromtimestamp rejects ("invalid"), or a timestamp given  *)
(* by its distance to the clock, now - created, in milliseconds (negative  *)
(* when the creation time lies in the future).                             *)
(***************************************************************************)
Age(kind, elapsed) == [created |-> kind, elapsed |-> elapsed]

AgeSeconds ==
    { d * 86400 + h * 3600 + m * 60 + sec :
        d \in 0..MaxAgeDays, h \in {0, 1, 23}, m \in {0, 1, 59}, sec \in {0, 30, 59} }

AgeMillis == {0, 999}

AgeSamples ==
    { Age(k, 0) : k \in {"none", "zero", "invalid"} }
    \cup { Age("ms", sign * (t * 1000 + ms)) :
             sign \in {1, -1}, t \in AgeSeconds, ms \in AgeMillis }

\* `datetime.now() - created_time`: a timedelta is kept normalised with
\* 0 <= seconds < 86400 and days carrying the sign.
timedelta_days(elapsed_ms) == elapsed_ms \div (86400 * 1000)

timedelta_seconds(elapsed_ms) == (elapsed_ms % (86400 * 1000)) \div 1000

format_age(arg) ==
    IF arg.created \in {"none", "zero"} THEN "N/A"
    ELSE IF arg.created = "invalid" THEN "N/A"
    ELSE LET days    == timedelta_days(arg.elapsed)
             seconds == timedelta_seconds(arg.elapsed)
             hours   == seconds \div 3600
             minutes == (seconds % 3600) \div 60
         IN  IF days > 0 THEN ToString(days) \o "d " \o ToString(hours) \o "h"
             ELSE IF hours > 0 THEN ToString(hours) \o "h " \o ToString(minutes) \o "m"
             ELSE IF minutes > 0 THEN ToString(minutes) \o "m"
             ELSE "<1m"

\* check_boost_criteria: `amount in BOOST_AMOUNTS`
check_boost_criteria_any(boost_data) == TRUE

check_boost_criteria(boost_data) == boost_data.amount \in BOOST_AMOUNTS

\* `[boost for boost in boosts if self.check_boost_criteria(boost)]`: the
\* comprehension keeps the order of `boosts`.
RECURSIVE Reversed(_)
Reversed(q) == IF q = <<>> THEN <<>> ELSE Append(Reversed(Tail(q)), Head(q))

SelectTargets_reversed(bs) == Reversed(SelectSeq(bs, check_boost_criteria))

SelectTargets(bs) == SelectSeq(bs, check_boost_criteria)

\* The except clauses around the main loop of run(): KeyboardInterrupt and
\* Exception are caught and lead to the shutdown notification; any other
\* BaseException (asyncio.CancelledError) leaves run().
run_catches_interrupt_only(exc) == exc = "KeyboardInterrupt"

run_catches(exc) == exc \in {"KeyboardInterrupt", "Exception"}

VARIABLES
    seen_boost_ids,   \* scanner.seen_boost_ids
    boost_stats,      \* bot.boost_stats
    scan_count,       \* run(): scan_count
    total_alerts,     \* run(): total_alerts
    pc,               \* position of the run() coroutine
    runState,         \* Starting, Running, Stopping, Stopped
    boosts,           \* scan_and_process: boosts
    target_boosts,    \* scan_and_process: target_boosts
    idx,              \* index of the boost being processed
    processed_count,  \* scan_and_process: processed_count
    token_data,       \* process_boost: token_data
    message,          \* process_boost: message
    cancelPending,    \* the task was cancelled while running synchronous code
    stopCause,        \* what ended the loop
    \* history (not read by the program)
    sends_ok,         \* per amount: alert sends the notifier confirmed
    cycle_log,        \* boosts handed to process_boost in this cycle
    failed_idx,       \* indices of this cycle's boosts whose processing failed
    chain_skipped,    \* this cycle: feed records skipped as of another chain
    lookups,          \* this cycle: boosts get_token_details was called for
    renders,          \* this cycle: boosts format_boost_message was called for
    sends,            \* this cycle: boosts send_alert was called for
    returned,         \* identities get_boosted_tokens has returned
    evicted,          \* returned identities cleanup_cache removed since
    returned_again,   \* identities returned more than once
    repeat_unevicted, \* identities returned again without an eviction between
    cleaned,          \* cleanup_cache was called in this cycle
    startup_attempts, \* startup notifications attempted
    startup_outcome,  \* "sent" or "failed", kept until the second cycle starts
    rested,           \* a pause or sleep has ended since the last confirmed alert
    shutdown_attempts,\* shutdown notifications attempted
    shutdown_report,  \* the figures carried by the shutdown notification
    \* the scanner driven directly (SpecFetchTwice, SpecCleanup)
    u_phase, u_resp, u_pre, u_ret1, u_ret2, u_max,
    \* get_token_details driven directly (SpecTokenDetails)
    u_search,         \* the answer of the search endpoint
    u_token,          \* the answer the token endpoint gives when asked
    u_result,         \* what the call returned
    \* the formatter's functions driven directly
    f_arg,            \* the argument of the call
    f_out             \* the string the call returned

vars == << seen_boost_ids, boost_stats, scan_count, total_alerts, pc, runState,
           boosts, target_boosts, idx, processed_count, token_data, message,
           cancelPending, stopCause, sends_ok, cycle_log, failed_idx,
           chain_skipped, lookups, renders, sends, returned, evicted, returned_again, repeat_unevicted,
           cleaned, startup_attempts, startup_outcome, rested,
           shutdown_attempts, shutdown_report,
           u_phase, u_resp, u_pre, u_ret1, u_ret2, u_max,
           u_search, u_token, u_result, f_arg, f_out >>

scannerVars == << seen_boost_ids, returned, evicted, returned_again, repeat_unevicted >>

cycleVars == << boosts, target_boosts, idx, processed_count, token_data, message,
                cycle_log, failed_idx, chain_skipped >>

logVars == << lookups, renders, sends >>

callVars == << u_search, u_token, u_result, f_arg, f_out >>

unitVars == << u_phase, u_resp, u_pre, u_ret1, u_ret2, u_max, callVars >>

noteVars == << startup_attempts, shutdown_attempts, shutdown_report >>

NoReport ==
    [scans |-> 0, alerts |-> 0, stats |-> [a \in BOOST_AMOUNTS |-> 0], delivered |-> FALSE]

NoAnswer == [kind |-> "raise", pairs |-> <<>>]

NoResult == [found |-> FALSE, pair |-> NoPair, token_queried |-> FALSE, propagated |-> FALSE]

CallIdle ==
    /\ u_search = NoAnswer /\ u_token = NoAnswer /\ u_result = NoResult
    /\ f_arg = <<>> /\ f_out = ""

UnitIdle ==
    /\ u_phase = "off" /\ u_resp = [kind |-> "fail", boosts |-> <<>>]
    /\ u_pre = {} /\ u_ret1 = <<>> /\ u_ret2 = <<>> /\ u_max = 0
    /\ CallIdle

\* The state after DexBoostBot() was constructed and run() was entered.
BotInit ==
    /\ seen_boost_ids = {}
    /\ boost_stats = [a \in BOOST_AMOUNTS |-> 0]
    /\ scan_count = 0
    /\ total_alerts = 0
    /\ pc = "startup"
    /\ runState = "Starting"
    /\ boosts = <<>> /\ target_boosts = <<>> /\ idx = 0 /\ processed_count = 0
    /\ token_data = None /\ message = None
    /\ cancelPending = FALSE
    /\ stopCause = "none"
    /\ sends_ok = [a \in AllAmounts |-> 0]
    /\ cycle_log = <<>> /\ failed_idx = {} /\ chain_skipped = {}
    /\ lookups = {} /\ renders = {} /\ sends = {}
    /\ returned = {} /\ evicted = {} /\ returned_again = {} /\ repeat_unevicted = {}
    /\ cleaned = FALSE
    /\ startup_attempts = 0 /\ shutdown_attempts = 0
    /\ shutdown_report = NoReport
    /\ startup_outcome = "pending"
    /\ rested = TRUE

Init == BotInit /\ UnitIdle

(***************************************************************************)
(* run(), scan_and_process() and process_boost() of bot.py.                *)
(***************************************************************************)

\* An exception reaches the try statement around the main loop of run().
Raise(exc) ==
    /\ stopCause' = exc
    /\ IF run_catches(exc)
       THEN pc' = "shutdown" /\ runState' = "Stopping"
       ELSE pc' = "exited" /\ runState' = "Stopped"

\* `scan_count % CACHE_CLEANUP_INTERVAL == 0`
cleanup_due_every_cycle(n) == TRUE

cleanup_due(n) == n % CACHE_CLEANUP_INTERVAL = 0

\* cleanup_cache() is called without argument: max_size has its default, the
\* value config.py gives MAX_CACHED_BOOSTS.
cleanup_default_max_size == MAX_CACHED_BOOSTS

\* The for loop of scan_and_process after boost number i of n was handled:
\* the next boost, or the return of processed_count.
pc_after_boost_abort(i, n) == "epilogue"

pc_after_boost(i, n) == IF i + 1 <= n THEN "lookup" ELSE "epilogue"

\* process_boost returned False for the current boost.
BoostFailed ==
    /\ failed_idx' = failed_idx \cup {idx}
    /\ idx' = idx + 1
    /\ pc' = pc_after_boost(idx, Len(target_boosts))
    /\ UNCHANGED << processed_count, boost_stats, sends_ok >>

\* `except Exception as e: logger.error(...)` around the startup send: run()
\* goes on to the loop variables and the while loop either way.
pc_after_startup_abort(ok) == IF ok THEN "scan" ELSE "exited"

pc_after_startup(ok) == "scan"

\* The startup notification: sent or failed, run() goes on to the loop.
StartupSend ==
    /\ pc = "startup"
    /\ \E ok \in BOOLEAN :
         /\ startup_attempts' = startup_attempts + 1
         /\ startup_outcome' = IF ok THEN "sent" ELSE "failed"
         /\ pc' = pc_after_startup(ok)
         /\ runState' = IF pc_after_startup(ok) = "scan" THEN "Running" ELSE "Stopped"
    /\ UNCHANGED << scannerVars, boost_stats, scan_count, total_alerts, cycleVars,
                    cancelPending, stopCause, sends_ok, logVars, cleaned,
                    shutdown_attempts, shutdown_report, rested, unitVars >>

\* `while True: scan_count += 1`
ScanStart ==
    /\ pc = "scan"
    /\ scan_count < MaxScans
    /\ scan_count' = scan_count + 1
    /\ pc' = "fetch"
    /\ boosts' = <<>> /\ target_boosts' = <<>> /\ idx' = 0 /\ processed_count' = 0
    /\ token_data' = None /\ message' = None
    /\ cycle_log' = <<>> /\ failed_idx' = {} /\ chain_skipped' = {}
    /\ lookups' = {} /\ renders' = {} /\ sends' = {}
    /\ cleaned' = FALSE
    /\ startup_outcome' = IF scan_count = 0 THEN startup_outcome ELSE "past"
    /\ UNCHANGED << scannerVars, boost_stats, total_alerts, runState, cancelPending,
                    stopCause, sends_ok, noteVars, rested,
                    unitVars >>

IdsOf(ret) == { boost_id(ret[k]) : k \in DOMAIN ret }

\* Identities that occur more than once in one returned list.
TwiceIn(ret) ==
    { boost_id(ret[k]) : k \in { j \in DOMAIN ret :
                                   \E h \in DOMAIN ret : h # j /\ boost_id(ret[h]) = boost_id(ret[j]) } }

\* scan_and_process up to the for loop: get_boosted_tokens and the amount
\* filter.
Fetch ==
    /\ pc = "fetch"
    /\ \E resp \in Responses :
         LET r  == get_boosted_tokens(resp, seen_boost_ids)
             tb == SelectTargets(r.ret)
         IN  /\ seen_boost_ids' = r.seen
             /\ returned' = returned \cup IdsOf(r.ret)
             /\ evicted' = evicted \ IdsOf(r.ret)
             /\ returned_again' =
                    returned_again \cup (IdsOf(r.ret) \cap returned) \cup TwiceIn(r.ret)
             /\ repeat_unevicted' =
                    repeat_unevicted \cup ((IdsOf(r.ret) \cap returned) \ evicted)
                                     \cup TwiceIn(r.ret)
             /\ IF fetch_propagates(r)
                THEN /\ Raise("Exception")
                     /\ UNCHANGED << boosts, chain_skipped, target_boosts, idx >>
                ELSE /\ boosts' = r.ret
                     /\ chain_skipped' = r.skipped
                     /\ target_boosts' = tb
                     /\ IF tb = <<>>
                        THEN pc' = "epilogue" /\ idx' = 0
                        ELSE pc' = "lookup" /\ idx' = 1
                     /\ UNCHANGED << runState, stopCause >>
    /\ UNCHANGED << boost_stats, scan_count, total_alerts,
                    processed_count, token_data, message, cancelPending,
                    sends_ok, cycle_log, failed_idx, logVars, cleaned, noteVars,
                    startup_outcome, rested, unitVars >>

\* process_boost: get_token_details for the current boost.
Lookup ==
    /\ pc = "lookup"
    /\ cycle_log' = Append(cycle_log, target_boosts[idx])
    /\ lookups' = lookups \cup {target_boosts[idx]}
    /\ \E td \in TokenLookupResults : token_data' = td
    /\ pc' = "render"
    /\ UNCHANGED << scannerVars, boost_stats, scan_count, total_alerts, runState,
                    boosts, target_boosts, idx, processed_count, message,
                    cancelPending, stopCause, sends_ok, failed_idx, chain_skipped,
                    renders, sends, cleaned, noteVars, startup_outcome, rested, unitVars >>

\* process_boost: an exception other than those the scanner, the formatter
\* and send_alert catch themselves is caught by `except Exception` and the
\* boost counts as not alerted.
ProcessBoostRaises ==
    /\ pc = "lookup"
    /\ cycle_log' = Append(cycle_log, target_boosts[idx])
    /\ BoostFailed
    /\ UNCHANGED << scannerVars, scan_count, total_alerts, runState, boosts,
                    target_boosts, token_data, message, cancelPending, stopCause,
                    chain_skipped, logVars, cleaned, noteVars, startup_outcome, rested, unitVars >>

\* `if not message: return False` in process_boost.
message_missing_never(m) == FALSE

message_missing(m) == m = None

\* process_boost: format_boost_message, and `if not message: return False`.
Render ==
    /\ pc = "render"
    /\ renders' = renders \cup {target_boosts[idx]}
    /\ message' = format_boost_message(target_boosts[idx], token_data)
    /\ IF message_missing(message')
       THEN BoostFailed
       ELSE /\ pc' = "send"
            /\ UNCHANGED << idx, failed_idx, processed_count, boost_stats, sends_ok >>
    /\ UNCHANGED << scannerVars, scan_count, total_alerts, runState, boosts,
                    target_boosts, token_data, cancelPending, stopCause, cycle_log,
                    chain_skipped, lookups, sends, cleaned, noteVars, startup_outcome, rested, unitVars >>

\* `if success: processed_count += 1; await asyncio.sleep(1)` in the for loop
\* of scan_and_process: the pause follows every alerted boost, the last one
\* of the cycle too.
pc_after_alert_nopause(i, n) == pc_after_boost(i, n)

pc_after_alert(i, n) == "pause"

\* `if success: self.boost_stats[amount] += 1`
stats_after_any_send(stats, amount, success) ==
    [stats EXCEPT ![amount] = @ + 1]

stats_after_send(stats, amount, success) ==
    IF success THEN [stats EXCEPT ![amount] = @ + 1] ELSE stats

\* process_boost: `await self.send_alert(message)` and the statistics.  A
\* pending cancellation is delivered at the await as CancelledError, which
\* none of the `except Exception` clauses catches.
Send ==
    /\ pc = "send"
    /\ sends' = sends \cup {target_boosts[idx]}
    /\ IF cancelPending
       THEN /\ Raise("CancelledError")
            /\ UNCHANGED << idx, failed_idx, processed_count, boost_stats, sends_ok,
                            rested >>
       ELSE /\ UNCHANGED << stopCause, runState >>
            /\ \E ok \in BOOLEAN :
                 LET amount == target_boosts[idx].amount IN
                 IF amount \notin DOMAIN boost_stats
                 THEN \* KeyError, caught by `except Exception`
                      /\ BoostFailed
                      /\ UNCHANGED rested
                 ELSE /\ boost_stats' = stats_after_send(boost_stats, amount, ok)
                      /\ sends_ok' = [sends_ok EXCEPT ![amount] = IF ok THEN @ + 1 ELSE @]
                      /\ IF ok
                         THEN /\ processed_count' = processed_count + 1
                              /\ rested' = FALSE
                              /\ pc' = pc_after_alert(idx, Len(target_boosts))
                              /\ idx' = IF pc' = "pause" THEN idx ELSE idx + 1
                              /\ UNCHANGED failed_idx
                         ELSE /\ failed_idx' = failed_idx \cup {idx}
                              /\ idx' = idx + 1
                              /\ pc' = pc_after_boost(idx, Len(target_boosts))
                              /\ UNCHANGED << processed_count, rested >>
    /\ UNCHANGED << scannerVars, scan_count, total_alerts, boosts, target_boosts,
                    token_data, message, cancelPending, cycle_log, chain_skipped,
                    lookups, renders, cleaned, noteVars, startup_outcome, unitVars >>

\* scan_and_process: `await asyncio.sleep(1)` after a successful alert.
Pause ==
    /\ pc = "pause"
    /\ IF cancelPending
       THEN Raise("CancelledError") /\ UNCHANGED << idx, rested >>
       ELSE /\ idx' = idx + 1
            /\ rested' = TRUE
            /\ pc' = pc_after_boost(idx, Len(target_boosts))
            /\ UNCHANGED << stopCause, runState >>
    /\ UNCHANGED << scannerVars, boost_stats, scan_count, total_alerts, boosts,
                    target_boosts, processed_count, token_data, message,
                    cancelPending, sends_ok, cycle_log, failed_idx, chain_skipped,
                    logVars, cleaned, noteVars, startup_outcome, unitVars >>

\* run() after scan_and_process returned: the totals and the periodic cleanup.
Epilogue ==
    /\ pc = "epilogue"
    /\ total_alerts' = total_alerts + processed_count
    /\ IF cleanup_due(scan_count)
       THEN /\ \E ids_list \in ListOrders(seen_boost_ids) :
                 seen_boost_ids' =
                     cleanup_cache(seen_boost_ids, ids_list, cleanup_default_max_size)
            /\ evicted' = evicted \cup ((seen_boost_ids \ seen_boost_ids') \cap returned)
            /\ cleaned' = TRUE
       ELSE UNCHANGED << seen_boost_ids, evicted, cleaned >>
    /\ pc' = "sleep"
    /\ UNCHANGED << returned, returned_again, repeat_unevicted, boost_stats, scan_count, runState, cycleVars,
                    cancelPending, stopCause, sends_ok, logVars, noteVars, startup_outcome, rested, unitVars >>

\* `await asyncio.sleep(SCAN_INTERVAL)`
Sleep ==
    /\ pc = "sleep"
    /\ IF cancelPending
       THEN Raise("CancelledError") /\ UNCHANGED rested
       ELSE pc' = "scan" /\ rested' = TRUE /\ UNCHANGED << stopCause, runState >>
    /\ UNCHANGED << scannerVars, boost_stats, scan_count, total_alerts, cycleVars,
                    cancelPending, sends_ok, logVars, cleaned, noteVars, startup_outcome,
                    unitVars >>

\* SIGINT while the coroutine is inside a blocking request of the scanner
\* (requests.get in get_boosted_tokens or get_token_details).  With Python's
\* default handler KeyboardInterrupt is raised there and passes every
\* `except Exception`; with the handler asyncio.run installs (Python 3.11 on)
\* the main task is cancelled and CancelledError is delivered at its next
\* await.
InterruptInRequest ==
    /\ runState = "Running"
    /\ pc \in {"fetch", "lookup"}
    /\ ~cancelPending
    /\ \/ Raise("KeyboardInterrupt") /\ UNCHANGED cancelPending
       \/ cancelPending' = TRUE /\ UNCHANGED << pc, runState, stopCause >>
    /\ UNCHANGED << scannerVars, boost_stats, scan_count, total_alerts, cycleVars,
                    sends_ok, logVars, cleaned, noteVars, startup_outcome, rested, unitVars >>

\* SIGINT while the coroutine is suspended at an await (send, pause, sleep):
\* the task is cancelled and CancelledError is raised at the await.
InterruptAtAwait ==
    /\ runState = "Running"
    /\ pc \in {"send", "pause", "sleep"}
    /\ Raise("CancelledError")
    /\ UNCHANGED << scannerVars, boost_stats, scan_count, total_alerts, cycleVars,
                    cancelPending, sends_ok, logVars, cleaned, noteVars, startup_outcome, rested, unitVars >>

\* An exception that nothing inside the loop body catches (raised outside
\* process_boost's try, for instance a MemoryError).
LoopBodyRaises ==
    /\ runState = "Running"
    /\ pc \in {"fetch", "epilogue"}
    /\ Raise("Exception")
    /\ UNCHANGED << scannerVars, boost_stats, scan_count, total_alerts, cycleVars,
                    cancelPending, sends_ok, logVars, cleaned, noteVars, startup_outcome, rested, unitVars >>

\* The shutdown notification after the loop was left through one of run()'s
\* except clauses; a failed send is logged by `except Exception`.  A pending
\* cancellation is delivered at the await of the send and leaves run().
ShutdownSend ==
    /\ pc = "shutdown"
    /\ shutdown_attempts' = shutdown_attempts + 1
    /\ \E ok \in BOOLEAN :
         shutdown_report' = [scans |-> scan_count, alerts |-> total_alerts,
                             stats |-> boost_stats,
                             delivered |-> ok /\ ~cancelPending]
    /\ pc' = IF cancelPending THEN "exited" ELSE "stopped"
    /\ runState' = "Stopped"
    /\ UNCHANGED << scannerVars, boost_stats, scan_count, total_alerts, cycleVars,
                    cancelPending, stopCause, sends_ok, logVars, cleaned,
                    startup_attempts, startup_outcome, rested, unitVars >>

Next ==
    \/ StartupSend
    \/ ScanStart
    \/ Fetch
    \/ Lookup
    \/ ProcessBoostRaises
    \/ Render
    \/ Send
    \/ Pause
    \/ Epilogue
    \/ Sleep
    \/ InterruptInRequest
    \/ InterruptAtAwait
    \/ LoopBodyRaises
    \/ ShutdownSend

Spec == Init /\ [][Next]_vars

(***************************************************************************)
(* The bot left alone: no signal is delivered to the process and nothing   *)
(* outside the guarded calls raises.  The feed, the token lookup and the   *)
(* notifier still answer in every way they can.  asyncio resumes run()     *)
(* after each await (the HTTP calls block and return or raise within their *)
(* timeouts, the sleeps end), so every step of the coroutine that can be   *)
(* taken is taken: weak fairness on the steps of the loop.                 *)
(***************************************************************************)
NextUninterrupted ==
    \/ StartupSend
    \/ ScanStart
    \/ Fetch
    \/ Lookup
    \/ ProcessBoostRaises
    \/ Render
    \/ Send
    \/ Pause
    \/ Epilogue
    \/ Sleep

SpecUninterrupted ==
    Init /\ [][NextUninterrupted]_vars /\ WF_vars(NextUninterrupted)

(***************************************************************************)
(* The scanner driven directly: get_boosted_tokens called twice in a row   *)
(* with the same upstream answer, from any cache.                          *)
(***************************************************************************)
BotIdle ==
    /\ boost_stats = [a \in BOOST_AMOUNTS |-> 0]
    /\ scan_count = 0 /\ total_alerts = 0
    /\ pc = "unit" /\ runState = "Starting"
    /\ boosts = <<>> /\ target_boosts = <<>> /\ idx = 0 /\ processed_count = 0
    /\ token_data = None /\ message = None
    /\ cancelPending = FALSE /\ stopCause = "none"
    /\ sends_ok = [a \in AllAmounts |-> 0]
    /\ cycle_log = <<>> /\ failed_idx = {} /\ chain_skipped = {}
    /\ lookups = {} /\ renders = {} /\ sends = {}
    /\ returned = {} /\ evicted = {} /\ returned_again = {} /\ repeat_unevicted = {}
    /\ cleaned = FALSE
    /\ startup_attempts = 0 /\ shutdown_attempts = 0 /\ shutdown_report = NoReport
    /\ startup_outcome = "pending"
    /\ rested = TRUE

botVars == << boost_stats, scan_count, total_alerts, pc, runState, cycleVars,
             cancelPending, stopCause, sends_ok, logVars, returned, evicted,
             returned_again, repeat_unevicted, cleaned, noteVars, startup_outcome,
             rested >>

FetchTwiceInit ==
    /\ BotIdle
    /\ seen_boost_ids \in SUBSET AllIds
    /\ u_resp \in Responses
    /\ u_phase = "fetch1"
    /\ u_pre = seen_boost_ids
    /\ u_ret1 = <<>> /\ u_ret2 = <<>> /\ u_max = 0
    /\ CallIdle

FirstFetch ==
    /\ u_phase = "fetch1"
    /\ LET r == get_boosted_tokens(u_resp, seen_boost_ids)
       IN  /\ seen_boost_ids' = r.seen /\ u_ret1' = r.ret
           /\ u_phase' = IF fetch_propagates(r) THEN "raised" ELSE "fetch2"
    /\ UNCHANGED << botVars, u_resp, u_pre, u_ret2, u_max, callVars >>

SecondFetch ==
    /\ u_phase = "fetch2"
    /\ LET r == get_boosted_tokens(u_resp, seen_boost_ids)
       IN  /\ seen_boost_ids' = r.seen /\ u_ret2' = r.ret
           /\ u_phase' = IF fetch_propagates(r) THEN "raised" ELSE "fetched"
    /\ UNCHANGED << botVars, u_resp, u_pre, u_ret1, u_max, callVars >>

FetchTwiceNext == FirstFetch \/ SecondFetch

SpecFetchTwice == FetchTwiceInit /\ [][FetchTwiceNext]_vars

(***************************************************************************)
(* The scanner driven directly: cleanup_cache(max_size) on any cache.      *)
(***************************************************************************)
CleanupInit ==
    /\ BotIdle
    /\ seen_boost_ids \in SUBSET AllIds
    /\ u_max \in 0..MaxSizeArg
    /\ u_phase = "cleanup"
    /\ u_pre = seen_boost_ids
    /\ u_resp = [kind |-> "fail", boosts |-> <<>>]
    /\ u_ret1 = <<>> /\ u_ret2 = <<>>
    /\ CallIdle

CleanupCall ==
    /\ u_phase = "cleanup"
    /\ \E ids_list \in ListOrders(seen_boost_ids) :
         seen_boost_ids' = cleanup_cache(seen_boost_ids, ids_list, u_max)
    /\ u_phase' = "cleaned"
    /\ UNCHANGED << botVars, u_resp, u_pre, u_ret1, u_ret2, u_max, callVars >>

CleanupNext == CleanupCall

SpecCleanup == CleanupInit /\ [][CleanupNext]_vars

(***************************************************************************)
(* The scanner driven directly: get_token_details with any pair of answers *)
(* of the two endpoints.                                                   *)
(***************************************************************************)
ScannerIdle ==
    /\ BotIdle
    /\ seen_boost_ids = {}
    /\ u_resp = [kind |-> "fail", boosts |-> <<>>]
    /\ u_pre = {} /\ u_ret1 = <<>> /\ u_ret2 = <<>> /\ u_max = 0

TokenDetailsInit ==
    /\ ScannerIdle
    /\ u_phase = "details"
    /\ u_search \in LookupAnswers
    /\ u_token \in LookupAnswers
    /\ u_result = NoResult
    /\ f_arg = <<>> /\ f_out = ""

TokenDetailsCall ==
    /\ u_phase = "details"
    /\ u_result' = get_token_details(u_search, u_token)
    /\ u_phase' = "detailed"
    /\ UNCHANGED << botVars, seen_boost_ids, u_resp, u_pre, u_ret1, u_ret2, u_max,
                    u_search, u_token, f_arg, f_out >>

TokenDetailsNext == TokenDetailsCall

SpecTokenDetails == TokenDetailsInit /\ [][TokenDetailsNext]_vars

(***************************************************************************)
(* The formatter driven directly: format_price on each sample price.       *)
(***************************************************************************)
FormatPriceInit ==
    /\ ScannerIdle
    /\ u_phase = "price"
    /\ u_search = NoAnswer /\ u_token = NoAnswer /\ u_result = NoResult
    /\ f_arg \in PriceSamples
    /\ f_out = ""

FormatPriceCall ==
    /\ u_phase = "price"
    /\ f_out' = format_price(f_arg)
    /\ u_phase' = "priced"
    /\ UNCHANGED << botVars, seen_boost_ids, u_resp, u_pre, u_ret1, u_ret2, u_max,
                    u_search, u_token, u_result, f_arg >>

FormatPriceNext == FormatPriceCall

SpecFormatPrice == FormatPriceInit /\ [][FormatPriceNext]_vars

(***************************************************************************)
(* The formatter driven directly: format_age on each sample argument.      *)
(***************************************************************************)
FormatAgeInit ==
    /\ ScannerIdle
    /\ u_phase = "age"
    /\ u_search = NoAnswer /\ u_token = NoAnswer /\ u_result = NoResult
    /\ f_arg \in AgeSamples
    /\ f_out = ""

FormatAgeCall ==
    /\ u_phase = "age"
    /\ f_out' = format_age(f_arg)
    /\ u_phase' = "aged"
    /\ UNCHANGED << botVars, seen_boost_ids, u_resp, u_pre, u_ret1, u_ret2, u_max,
                    u_search, u_token, u_result, f_arg >>

FormatAgeNext == FormatAgeCall

SpecFormatAge == FormatAgeInit /\ [][FormatAgeNext]_vars

(***************************************************************************)
(* Properties.                                                             *)
(***************************************************************************)

\* The records of a payload that are of the target chain.
IsTargetChainRecord(b) == b.chainId \in {"solana", "SOLANA", "Solana"}

TargetChainBoosts(p) == SelectSeq(p, IsTargetChainRecord)

\* C1 (as claimed): from a cache that holds none of the payload's identities,
\* two calls of get_boosted_tokens in a row with the same payload return the
\* payload's target-chain boosts (every identity of them) the first time and
\* the empty list the second time.
C1_DedupIdempotence ==
    (u_phase = "fetched"
       /\ u_resp.kind \in {"list", "dict"}
       /\ IdsOf(TargetChainBoosts(u_resp.boosts)) \cap u_pre = {})
    => /\ IdsOf(u_ret1) = IdsOf(TargetChainBoosts(u_resp.boosts))
       /\ u_ret2 = <<>>

\* C2 (as claimed): over the whole run, cleanups included, no identity is
\* returned by get_boosted_tokens more than once.
C2_NeverReturnedTwice == returned_again = {}

\* C2 (amended): an identity is returned again only after cleanup_cache removed
\* it from the cache since its last return; every returned identity that was
\* not evicted since is still in the cache, where it blocks a second return.
C2_ReturnedAgainOnlyAfterEviction ==
    /\ repeat_unevicted = {}
    /\ (returned \ evicted) \subseteq seen_boost_ids
    /\ IdsOf(boosts) \subseteq seen_boost_ids \cup evicted

C2_Witness ==
    /\ returned_again # {}
    /\ pc = "lookup"
    /\ boost_id(target_boosts[idx]) \in returned_again

\* C3 (as claimed): cleanup_cache(max_size) on a cache of more than max_size
\* entries leaves exactly max_size entries, a subset of the cache before; on a
\* cache of at most max_size entries it changes nothing.
C3_EvictToMaxSize ==
    u_phase = "cleaned"
    => IF Cardinality(u_pre) > u_max
       THEN Cardinality(seen_boost_ids) = u_max /\ seen_boost_ids \subseteq u_pre
       ELSE seen_boost_ids = u_pre

\* C4: cleanup_cache is called in exactly the scan cycles whose number is a
\* positive multiple of CACHE_CLEANUP_INTERVAL, after the cycle's boosts were
\* processed and before its sleep, so that the sleep of such a cycle starts
\* with at most MAX_CACHED_BOOSTS identities cached.
C4_CleanupSchedule ==
    /\ (pc = "sleep" /\ scan_count > 0 /\ scan_count % CACHE_CLEANUP_INTERVAL = 0)
         => (cleaned /\ Cardinality(seen_boost_ids) <= MAX_CACHED_BOOSTS)
    /\ cleaned => (scan_count > 0 /\ scan_count % CACHE_CLEANUP_INTERVAL = 0)
    /\ cleaned => pc \in {"sleep", "scan", "exited"}

C4_Witness ==
    /\ pc = "sleep" /\ cleaned
    /\ evicted # {}
    /\ Cardinality(seen_boost_ids) = MAX_CACHED_BOOSTS

\* C5: get_boosted_tokens returns no record whose chainId, lower-cased, is not
\* the target chain, and no lookup, render or send happens for such a record.
C5_OnlyTargetChain ==
    /\ \A k \in DOMAIN boosts : Lower(boosts[k].chainId) = TARGET_CHAIN
    /\ \A b \in lookups \cup renders \cup sends : Lower(b.chainId) = TARGET_CHAIN
    /\ \A b \in chain_skipped : b.chainId \notin {"solana", "SOLANA", "Solana"}

C5_Witness ==
    /\ chain_skipped # {}
    /\ pc = "pause"
    /\ \E k \in DOMAIN boosts : boosts[k].chainId = "SOLANA"

IsPrefix(a, b) == Len(a) <= Len(b) /\ \A k \in DOMAIN a : a[k] = b[k]

HasTargetAmount(b) == b.amount = 500 \/ b.amount = 100

\* C6: a returned boost whose amount is not a target amount gets no lookup, no
\* render and no send and changes no statistic; the boosts handed to
\* process_boost are the returned boosts with a target amount, unchanged and in
\* order.
C6_AmountFilter ==
    /\ \A b \in lookups \cup renders \cup sends : HasTargetAmount(b)
    /\ \A k \in DOMAIN cycle_log : HasTargetAmount(cycle_log[k])
    /\ IsPrefix(cycle_log, SelectSeq(boosts, HasTargetAmount))
    /\ pc \in {"lookup", "render", "send", "pause"}
         => \E k \in DOMAIN boosts :
               HasTargetAmount(boosts[k]) /\ boosts[k] = target_boosts[idx]
    /\ DOMAIN boost_stats = {500, 100}
    /\ \A a \in AllAmounts \ {500, 100} : sends_ok[a] = 0

C6_Witness ==
    /\ pc = "epilogue"
    /\ \E k \in DOMAIN boosts : boosts[k].amount = 42
    /\ Len(cycle_log) = 1
    /\ boost_stats[cycle_log[1].amount] = 1

\* C7: boost_stats[a] is the number of alert sends for amount a that the
\* notifier confirmed; it changes only in the step of a confirmed send, by
\* exactly one, for the amount of the boost sent.
C7_StatsCountConfirmedSends ==
    /\ [](\A a \in BOOST_AMOUNTS : boost_stats[a] = sends_ok[a])
    /\ [][boost_stats' # boost_stats
            => /\ pc = "send" /\ pc' = "pause"
               /\ boost_stats' = [boost_stats EXCEPT ![target_boosts[idx].amount] = @ + 1]
         ]_vars

C7_Witness ==
    /\ pc = "epilogue"
    /\ failed_idx # {}
    /\ boost_stats[500] = 1 /\ boost_stats[100] = 0
    /\ \E k \in DOMAIN cycle_log : cycle_log[k].amount = 100

\* C8: a boost whose processing fails (failed or empty lookup result that does
\* not render, failed send, unexpected exception) does not end the cycle: the
\* loop goes on with the next boost, and when scan_and_process returns every
\* boost of the filtered list was handed to process_boost.
C8_ErrorIsolation ==
    /\ pc = "epilogue" => Len(cycle_log) = Len(target_boosts)
    /\ \A i \in failed_idx :
         /\ i \in 1..Len(target_boosts)
         /\ runState = "Running" => idx > i
    /\ (failed_idx # {} /\ stopCause = "none") => runState = "Running"

C8_Witness ==
    /\ pc = "epilogue"
    /\ failed_idx = {1}
    /\ Len(target_boosts) = 2
    /\ Len(cycle_log) = 2
    /\ processed_count = 1

\* C9 (as claimed): once an interrupt has stopped the bot, the shutdown
\* notification was attempted, with the totals and the statistics.
C9_InterruptShutdown ==
    (runState = "Stopped" /\ stopCause \in {"KeyboardInterrupt", "CancelledError"})
    => /\ shutdown_attempts = 1
       /\ shutdown_report.scans = scan_count
       /\ shutdown_report.alerts = total_alerts
       /\ shutdown_report.stats = boost_stats

\* C10: an exception that escapes the loop body is caught at the loop: no scan
\* cycle is started after it, the shutdown notification is attempted exactly
\* once before the bot stops, and a failed shutdown send ends run() normally.
C10_LoopExceptionShutdown ==
    /\ [](stopCause = "Exception"
            => /\ pc \in {"shutdown", "stopped", "exited"}
               /\ runState \in {"Stopping", "Stopped"}
               /\ runState = "Stopping" => shutdown_attempts = 0
               /\ runState = "Stopped" => shutdown_attempts = 1
               /\ (runState = "Stopped" /\ ~cancelPending) => pc = "stopped")
    /\ [][stopCause = "Exception"
            => scan_count' = scan_count /\ stopCause' = stopCause /\ pc' # "scan"]_vars

C10_Witness ==
    /\ stopCause = "Exception"
    /\ pc = "stopped"
    /\ shutdown_attempts = 1
    /\ ~shutdown_report.delivered
    /\ scan_count = 2

\* How far run() is inside the current scan cycle: the fetch, four steps per
\* boost (lookup, render, send, pause), then the epilogue, the sleep and the
\* head of the while loop.
LoopPosition ==
    CASE pc = "fetch"    -> 0
      [] pc = "lookup"   -> 4 * idx - 3
      [] pc = "render"   -> 4 * idx - 2
      [] pc = "send"     -> 4 * idx - 1
      [] pc = "pause"    -> 4 * idx
      [] pc = "epilogue" -> 4 * Len(target_boosts) + 1
      [] pc = "sleep"    -> 4 * Len(target_boosts) + 2
      [] pc = "scan"     -> 4 * Len(target_boosts) + 3
      [] OTHER           -> 0

CycleLength == 4 * MaxPayloadLen + 4

LoopProgress == scan_count * CycleLength + LoopPosition

\* C11: left alone (no interrupt), the scan loop never stops, whatever the
\* feed, the token lookup and the notifier answer: the bot stays Running, in
\* every state the loop has a next step (until the MaxScans cycles the model
\* runs are used up), and every step moves forward within a cycle of bounded
\* length, so each cycle reaches its sleep and each sleep the next cycle.
C11_LoopNeverStops ==
    /\ [](runState \in {"Starting", "Running"} /\ stopCause = "none")
    /\ [](pc \in {"startup", "scan", "fetch", "lookup", "render", "send", "pause",
                  "epilogue", "sleep"})
    /\ []((ENABLED NextUninterrupted) \/ (pc = "scan" /\ scan_count = MaxScans))
    /\ [](LoopPosition < CycleLength)
    /\ [][LoopProgress' > LoopProgress]_vars

\* The last cycle reached its sleep although a boost of it failed.
C11_Witness ==
    /\ pc = "sleep" /\ scan_count = MaxScans /\ runState = "Running"
    /\ failed_idx # {}
    /\ stopCause = "none"

\* C12: get_boosted_tokens never lets an exception reach its caller, and it
\* returns the empty list (leaving the cache as it was) whenever the upstream
\* call fails: transport error, non-2xx status, unparsable body, or a body that
\* is neither a list nor an object with a `boosts` list.
C12_FailedFetchReturnsEmpty ==
    /\ u_phase # "raised"
    /\ (u_phase \in {"fetch2", "fetched"} /\ u_resp.kind \notin {"list", "dict"})
         => /\ u_resp.kind \in RaisingKinds \cup {"other"}
            /\ u_ret1 = <<>>
            /\ u_ret2 = <<>>
            /\ seen_boost_ids = u_pre

\* Both calls were answered by an object whose `boosts` is not a list, with a
\* cache that was not empty.
C12_Witness ==
    /\ u_phase = "fetched"
    /\ u_resp.kind = "dict_nonlist"
    /\ u_pre # {}
    /\ u_ret1 = <<>> /\ u_ret2 = <<>>

\* The positions of a payload whose record is of the target chain, has an
\* identity that is not in `pre`, and is the first target-chain record of the
\* payload with that identity.
NewTargetPositions(p, pre) ==
    { k \in DOMAIN p :
        /\ IsTargetChainRecord(p[k])
        /\ boost_id(p[k]) \notin pre
        /\ \A j \in 1..(k - 1) :
             ~(IsTargetChainRecord(p[j]) /\ boost_id(p[j]) = boost_id(p[k])) }

\* The records of p at the positions K, in the order of p.
RECURSIVE RecordsAt(_, _, _)
RecordsAt(p, K, i) ==
    IF i > Len(p) THEN <<>>
    ELSE (IF i \in K THEN <<p[i]>> ELSE <<>>) \o RecordsAt(p, K, i + 1)

\* C13 (as claimed): a call of get_boosted_tokens that got a payload returns
\* exactly the payload's target-chain records whose identity was not in the
\* cache before the call (the first occurrence of each identity), in upstream
\* order, and the cache after the call is the cache before plus the identities
\* of the returned records.
C13_ReturnsNewTargetRecords ==
    (u_phase \in {"fetch2", "fetched"} /\ u_resp.kind \in {"list", "dict"})
    => /\ u_ret1 = RecordsAt(u_resp.boosts, NewTargetPositions(u_resp.boosts, u_pre), 1)
       /\ (u_phase = "fetch2" => seen_boost_ids = u_pre \cup IdsOf(u_ret1))

\* The target-chain pairs of an answer, as the claims speak of them.
TargetPairs(a) ==
    IF a.kind = "ok"
    THEN { a.pairs[k] : k \in { j \in DOMAIN a.pairs :
                                  a.pairs[j].chainId \in {"solana", "SOLANA", "Solana"} } }
    ELSE {}

\* The answer holds at least one target-chain pair.
HasTargetPair(a) == TargetPairs(a) # {}

\* The endpoint yields nothing: a status other than 200, no or empty pairs,
\* or no pair of the target chain.
YieldsNothing(a) == a.kind \in {"status", "nopairs", "ok"} /\ TargetPairs(a) = {}

\* Every target-chain pair of the answer has a numeric (or no) liquidity.
LiquidityReadable(a) == \A q \in TargetPairs(a) : q.liquidity \in {"usd", "absent"}

\* The call returned a target-chain pair of the answer whose USD liquidity no
\* readable target-chain pair of the answer exceeds.
ReturnedMostLiquidOf(a) ==
    /\ u_result.found
    /\ u_result.pair \in TargetPairs(a)
    /\ \A q \in TargetPairs(a) :
         q.liquidity = "usd" =>
            q.usd <= (IF u_result.pair.liquidity = "usd" THEN u_result.pair.usd ELSE 0)

PlaceholderMessage(boost) ==
    "Boost " \o (IF boost.totalAmount > boost.amount
                 THEN ToString(boost.amount) \o " (Total: " \o ToString(boost.totalAmount) \o ")"
                 ELSE ToString(boost.amount))
    \o " Token N/A ($N/A) CA " \o boost.tokenAddress \o " Age N/A Price $0.00"

FinishedBoosts == processed_count + Cardinality(failed_idx)

\* C16: cycles do not overlap and boosts are handled strictly one at a time,
\* in the order get_boosted_tokens returned them: while a boost is in its
\* lookup, render, send or pause every earlier boost of the cycle is finished
\* and no later one was started; the lookup of the next boost begins only from
\* the pause after a confirmed send or from the failure of the current boost;
\* the next fetch begins only from the head of the loop, after all boosts of
\* the cycle are finished.
C16_OneBoostAtATime ==
    /\ [](target_boosts = SelectSeq(boosts, HasTargetAmount))
    /\ [](pc \in {"lookup", "render", "send", "pause"}
            => /\ idx \in 1..Len(target_boosts)
               /\ cycle_log = SubSeq(target_boosts, 1, IF pc = "lookup" THEN idx - 1 ELSE idx)
               /\ FinishedBoosts = (IF pc = "pause" THEN idx ELSE idx - 1))
    /\ [](pc \in {"epilogue", "sleep", "scan"}
            => /\ cycle_log = target_boosts
               /\ FinishedBoosts = Len(target_boosts))
    /\ [][(pc' = "fetch" /\ pc # "fetch") => pc = "scan"]_vars
    /\ [][(pc' = "lookup" /\ (pc # "lookup" \/ idx' # idx))
            => \/ pc = "fetch" /\ idx' = 1
               \/ /\ idx' = idx + 1
                  /\ pc = "pause" \/ idx \in failed_idx']_vars

\* The second boost of a cycle is being looked up after the first one was
\* alerted and the pause ended.
C16_Witness ==
    /\ pc = "lookup" /\ idx = 2
    /\ Len(target_boosts) = 2 /\ target_boosts[1] # target_boosts[2]
    /\ cycle_log = <<target_boosts[1]>>
    /\ processed_count = 1
    /\ scan_count >= 2

\* C17: the startup notification does not decide whether the bot starts: sent
\* or failed, run() leaves Starting for Running with no cycle counted yet, and
\* from there the first scan cycle begins (the head of the loop is enabled and
\* leads to the fetch of cycle 1); the failure is not a cause to stop.
C17_StartupFailureTolerated ==
    /\ [][pc = "startup"
            => /\ startup_outcome' \in {"sent", "failed"}
               /\ pc' = "scan" /\ runState' = "Running"
               /\ scan_count' = 0 /\ stopCause' = "none"]_vars
    /\ []((pc = "scan" /\ scan_count = 0)
            => /\ startup_outcome \in {"sent", "failed"}
               /\ runState = "Running"
               /\ ENABLED ScanStart)
    /\ [][(pc = "scan" /\ scan_count = 0)
            => (pc' = "fetch" /\ scan_count' = 1 /\ runState' = "Running"
                 /\ startup_outcome' = startup_outcome)]_vars
    /\ [](runState = "Starting" <=> startup_outcome = "pending")

\* The startup notification failed and the first scan cycle has fetched and
\* is processing a boost.
C17_Witness ==
    /\ startup_outcome = "failed"
    /\ startup_attempts = 1
    /\ runState = "Running"
    /\ scan_count = 1
    /\ pc = "send"

\* C18: seen_boost_ids changes only in the step that runs get_boosted_tokens,
\* which only adds identities, and in the step that runs cleanup_cache, which
\* only removes identities; the startup and shutdown notifications, the token
\* lookup, the rendering, the send with its statistics update, the pauses and
\* the interrupts leave it as it is.
C18_SeenCacheFrame ==
    [][seen_boost_ids' # seen_boost_ids
         => \/ pc = "fetch" /\ seen_boost_ids \subseteq seen_boost_ids'
            \/ /\ pc = "epilogue" /\ cleanup_due(scan_count)
               /\ seen_boost_ids' \subseteq seen_boost_ids]_vars

\* After a fetch added identities and a cleanup removed some, a boost has been
\* looked up, rendered and sent.
C18_Witness ==
    /\ pc = "pause"
    /\ evicted # {}
    /\ seen_boost_ids # {}
    /\ lookups # {} /\ renders # {} /\ sends # {}
    /\ \E a \in DOMAIN boost_stats : boost_stats[a] > 0

\* C19 (as claimed): format_price cuts the digits beyond its tier's precision
\* off: 0 gives "$0.00", 1234.56789 gives "$1234.5678" (four decimals at 1 and
\* above), 0.123456789 gives "$0.123456" (six decimals from 0.001 to 1).
C19_FormatPriceTruncates ==
    u_phase = "priced" =>
       /\ f_arg = Price(0, 0) => f_out = "$0.00"
       /\ f_arg = Price(1234, 567890000) => f_out = "$1234.5678"
       /\ f_arg = Price(0, 123456789) => f_out = "$0.123456"

\* C19 (amended): format_price rounds to its tier's precision and trims the
\* trailing zeros (and a trailing point): 0 gives "$0.00", 1234.56789 gives
\* "$1234.5679", 0.123456789 gives "$0.123457"; a whole price loses its
\* fraction, a fraction that rounds up to 1 carries into the integer part, and
\* below 0.001 eight decimals are kept.
C19_FormatPriceRounds ==
    u_phase = "priced" =>
       /\ f_arg = Price(0, 0) => f_out = "$0.00"
       /\ f_arg = Price(1234, 567890000) => f_out = "$1234.5679"
       /\ f_arg = Price(0, 123456789) => f_out = "$0.123457"
       /\ f_arg = Price(12, 340000000) => f_out = "$12.34"
       /\ f_arg = Price(12, 0) => f_out = "$12"
       /\ f_arg = Price(0, 500000000) => f_out = "$0.5"
       /\ f_arg = Price(0, 999999600) => f_out = "$1"
       /\ f_arg = Price(1, 999960000) => f_out = "$2"
       /\ f_arg = Price(0, 1000000) => f_out = "$0.001"
       /\ f_arg = Price(0, 12340) => f_out = "$0.00001234"
       /\ f_arg = Price(0, 123) => f_out = "$0.00000012"
       /\ f_arg = Price(0, 1) => f_out = "$0"

\* format_price returned for 1234.56789.
C19_Witness ==
    /\ u_phase = "priced"
    /\ f_arg = Price(1234, 567890000)
    /\ f_out = "$1234.5679"

\* Whole days, hours and minutes of an elapsed time that is not negative.
ElapsedDays(e) == (e \div 1000) \div 86400

ElapsedHours(e) == ((e \div 1000) % 86400) \div 3600

ElapsedMinutes(e) == ((e \div 1000) % 3600) \div 60

\* C20 (as claimed): format_age gives "N/A" for None and 0; for an elapsed time
\* "{d}d {h}h" when days > 0, else "{h}h {m}m" when hours > 0, else "{m}m" when
\* minutes > 0, else "<1m"; from 60 s to under an hour that is "{m}m" (90000 ms
\* give "1m"); every elapsed time under 60 s, a creation time in the future
\* included, gives "<1m" or "N/A".
C20_FormatAgeTiers ==
    u_phase = "aged" =>
       /\ f_arg.created \in {"none", "zero"} => f_out = "N/A"
       /\ (f_arg.created = "ms" /\ f_arg.elapsed >= 0) =>
            LET e == f_arg.elapsed IN
            f_out = (IF ElapsedDays(e) > 0
                     THEN ToString(ElapsedDays(e)) \o "d " \o ToString(ElapsedHours(e)) \o "h"
                     ELSE IF ElapsedHours(e) > 0
                     THEN ToString(ElapsedHours(e)) \o "h " \o ToString(ElapsedMinutes(e)) \o "m"
                     ELSE IF ElapsedMinutes(e) > 0
                     THEN ToString(ElapsedMinutes(e)) \o "m"
                     ELSE "<1m")
       /\ (f_arg.created = "ms" /\ f_arg.elapsed = 90000) => f_out = "1m"
       /\ (f_arg.created = "ms" /\ f_arg.elapsed < 60000) => f_out \in {"<1m", "N/A"}

\* C21: send_alert is called only in the send step of process_boost, for the
\* current boost, which passed the amount filter, was rendered to a message
\* that is not None, and was not sent before in this cycle (at most one send
\* per processed boost); when format_boost_message returns None the boost gets
\* no send, boost_stats and processed_count stay as they are and the boost
\* counts as failed.
C21_SendOnlyRenderedTargets ==
    /\ [](pc = "send"
            => /\ HasTargetAmount(target_boosts[idx])
               /\ message # None
               /\ target_boosts[idx] \in renders
               /\ target_boosts[idx] \notin sends)
    /\ [](\A b \in sends : HasTargetAmount(b) /\ b \in renders /\ b \in Range(cycle_log))
    /\ [][(sends' \ sends) # {}
            => /\ pc = "send" /\ message # None
               /\ sends' = sends \cup {target_boosts[idx]}
               /\ pc' # "send"]_vars
    /\ [][(pc = "render" /\ message' = None)
            => /\ pc' # "send"
               /\ sends' = sends
               /\ boost_stats' = boost_stats
               /\ processed_count' = processed_count
               /\ failed_idx' = failed_idx \cup {idx}]_vars

\* The first boost of a cycle was rendered to None and not sent; the second
\* one was rendered and sent.
C21_Witness ==
    /\ pc = "pause" /\ idx = 2
    /\ 1 \in failed_idx
    /\ target_boosts[1] \in renders /\ target_boosts[1] \notin sends
    /\ target_boosts[2] \in sends
    /\ message # None

\* C22: alerts are paced.  A confirmed alert send happens only when a pause
\* or an inter-cycle sleep has ended since the previous confirmed alert send
\* of the process (or no alert was confirmed yet), and it is followed at once
\* by the inter-boost pause; the pause is entered from nowhere but a
\* confirmed send, so a boost whose processing failed is followed by the
\* next boost (or the end of the cycle) without a pause; only a completed
\* pause or sleep counts as rest.
C22_AlertsArePaced ==
    /\ [][sends_ok' # sends_ok
            => /\ rested /\ ~rested'
               /\ pc = "send" /\ pc' = "pause"
               /\ processed_count' = processed_count + 1]_vars
    /\ [](pc = "pause" => ~rested /\ target_boosts[idx] \in sends)
    /\ [][(pc' = "pause" /\ pc # "pause") => sends_ok' # sends_ok]_vars
    /\ [][(failed_idx' \ failed_idx) # {}
            => /\ pc' # "pause"
               /\ rested' = rested
               /\ sends_ok' = sends_ok]_vars
    /\ [][(~rested /\ rested')
            => /\ pc \in {"pause", "sleep"}
               /\ runState' = "Running"
               /\ sends_ok' = sends_ok]_vars

\* The second alert of one cycle has just been confirmed, after the pause
\* that followed the first one.
C22_Witness ==
    /\ pc = "pause" /\ idx = 2 /\ processed_count = 2
    /\ ~rested
    /\ sends_ok[500] + sends_ok[100] >= 2

\* C23 (as claimed): every call of get_boosted_tokens, a call that ends in
\* the except clause and returns [] included, leaves the cache equal to the
\* cache before the call united with the identities of the records it
\* returned; an identity a call adds is the identity of a target-chain record
\* of the payload.
C23_SeenGrowsByReturned ==
    /\ [][(u_phase = "fetch1" /\ u_phase' # "fetch1")
            => seen_boost_ids' = seen_boost_ids \cup IdsOf(u_ret1')]_vars
    /\ [][(u_phase = "fetch2" /\ u_phase' # "fetch2")
            => seen_boost_ids' = seen_boost_ids \cup IdsOf(u_ret2')]_vars
    /\ [][\A id \in seen_boost_ids' \ seen_boost_ids :
            \E k \in DOMAIN u_resp.boosts :
                /\ IsTargetChainRecord(u_resp.boosts[k])
                /\ boost_id(u_resp.boosts[k]) = id]_vars

\* The sum of a statistics table over the target amounts.
RECURSIVE SumOver(_, _)
SumOver(stats, amounts) ==
    IF amounts = {} THEN 0
    ELSE LET a == CHOOSE x \in amounts : TRUE
         IN  stats[a] + SumOver(stats, amounts \ {a})

\* C24 (as claimed): when a scan cycle has ended (the loop is at its sleep or
\* about to start the next cycle) total_alerts is the sum of boost_stats over
\* the target amounts; the shutdown notification reports an alert total that
\* is the sum of the breakdown it reports, and the scan count; scan_count is
\* the number of cycles started: it goes up by one exactly when a cycle
\* starts and is what the shutdown notification reports.
C24_TotalsMatchStats ==
    /\ []((pc = "sleep" \/ (pc = "scan" /\ scan_count > 0))
            => total_alerts = SumOver(boost_stats, BOOST_AMOUNTS))
    /\ [](shutdown_attempts > 0
            => /\ shutdown_report.alerts = SumOver(shutdown_report.stats, BOOST_AMOUNTS)
               /\ shutdown_report.scans = scan_count
               /\ shutdown_report.stats = boost_stats)
    /\ [][(pc = "scan" /\ pc' # "scan") => scan_count' = scan_count + 1]_vars
    /\ [][scan_count' # scan_count => (pc = "scan" /\ pc' = "fetch")]_vars
====
